---- MODULE Spec2Model ----
(***************************************************************************)
(* Model of SpectraGen/openalex_scrapping.                                 *)
(*                                                                         *)
(*   retrieve_data.py  main: load configs, validate filters, fetch each    *)
(*                     search page by page, aggregate by work id, save.    *)
(*                     Specification: Spec.                                *)
(*   filter_data.py    main: parse arguments, load the CSV, deduplicate by *)
(*                     title, filter by OA status, bucket by year, save.   *)
(*                     Specification: SpecFilter.                          *)
(*                                                                         *)
(* The two scripts share no state.  Each specification runs one script and *)
(* leaves the variables of the other at their idle values.                 *)
(*                                                                         *)
(* Python values:  None / an absent key is the empty tuple <<>>, a present *)
(* value x is <<x>> (None, Some).  A str whose characters matter (CSV      *)
(* fields) is a tuple of one-character strings.                            *)
(***************************************************************************)
EXTENDS Integers, Sequences, FiniteSets, TLC

VARIABLES
  \* ---- retrieve_data.py
  configs,        \* main: configs (list of QueryConfig)
  args_output,    \* main: args.output given?
  pc,             \* position in main / fetch_works
  ci,             \* main: 1-based index of cfg in "for cfg in configs"
  page_num,       \* fetch_works: page_num of the for loop
  all_results,    \* fetch_works: all_results
  requests,       \* next(pager) calls made by the current fetch_works call
  stop_reason,    \* why the current fetch_works call left its page loop
  all_works,      \* main: all_works
  seen_ids,       \* main: seen_ids
  fetch_calls,    \* number of fetch_works calls made by main
  first_returned, \* history: id -> first record a search returned with it
  failed,         \* history: indices of the searches whose pager raised
  pages,          \* history: the pages next(pager) gave the current call
  csv_written,    \* save_works_to_csv: None, or Some(the works written)
  exit_code,      \* main: None while running, Some(return value)
  \* ---- filter_data.py
  fpc,            \* position in main / count_papers_by_year
  args,           \* argparse result: [deduplicate, oa]
  input_exists,   \* os.path.exists(args.input)
  csv_rows,       \* the rows of the input CSV (csv.DictReader)
  fieldnames,     \* reader.fieldnames
  papers,         \* count_papers_by_year: papers
  total_papers,
  duplicates_removed,
  oa_filtered_out,
  year_counts,    \* Counter, as its items in insertion order
  papers_without_year,
  stages,         \* history: the stages of the filter pipeline that ran
  peak_year,      \* display_results: the peak year printed (None if none)
  outputs,        \* the files written to args.output, in order
  ferror          \* "none", "usage" (parser.error) or "ValueError"

fetchVars == <<configs, args_output, pc, ci, page_num, all_results, requests,
               stop_reason, all_works, seen_ids, fetch_calls, first_returned,
               failed, pages, csv_written, exit_code>>
filterVars == <<fpc, args, input_exists, csv_rows, fieldnames, papers,
                total_papers, duplicates_removed, oa_filtered_out, year_counts,
                papers_without_year, stages, peak_year, outputs, ferror>>
vars == <<fetchVars, filterVars>>

None == <<>>
Some(x) == <<x>>

\* ---------------------------------------------------------------- bounds
MaxSearches == 2   \* searches in the YAML config
MaxPages == 2      \* largest max_pages of a search
MaxRows == 4       \* rows in the input CSV of filter_data.py

(***************************************************************************)
(*                          retrieve_data.py                               *)
(***************************************************************************)

\* QueryFilters as loaded: valid and invalid combinations of the year filters.
FilterPool ==
  { [year |-> None, from_year |-> None, to_year |-> None, min_relevance |-> None],
    [year |-> Some(2020), from_year |-> None, to_year |-> None, min_relevance |-> None],
    [year |-> None, from_year |-> Some(2019), to_year |-> Some(2021), min_relevance |-> Some(3)],
    [year |-> Some(2020), from_year |-> Some(2019), to_year |-> None, min_relevance |-> None],
    [year |-> Some(2020), from_year |-> None, to_year |-> Some(2021), min_relevance |-> None],
    [year |-> None, from_year |-> Some(2021), to_year |-> Some(2019), min_relevance |-> None] }

\* load_query_configs names the searches search_0, search_1, ... by position.
DefaultName(idx) == "search_" \o ToString(idx)

QueryConfig(idx, choice) ==
  [search_name |-> DefaultName(idx), max_pages |-> choice[2], filters |-> choice[1]]

ConfigLists ==
  UNION { { [i \in 1..n |-> QueryConfig(i - 1, f[i])] :
              f \in [1..n -> FilterPool \X (0..MaxPages)] } : n \in 0..MaxSearches }

\* validate_filters without the to_year half of its first test.
validate_filters_no_to_year(filters) ==
  \/ filters.year # None /\ filters.from_year # None
  \/ /\ filters.from_year # None
     /\ filters.to_year # None
     /\ filters.from_year[1] > filters.to_year[1]

\* validate_filters: TRUE when it raises ValueError.
validate_filters(filters) ==
  \/ filters.year # None /\ (filters.from_year # None \/ filters.to_year # None)
  \/ /\ filters.from_year # None
     /\ filters.to_year # None
     /\ filters.from_year[1] > filters.to_year[1]

\* Works as the remote API returns them.  id: None (absent), "" or an
\* identifier; relevance_score: None (absent or null) or a score.
Work(id, title, score) == [id |-> id, title |-> title, relevance_score |-> score]

wA == Work(Some("W1"), "p", Some(3))
wB == Work(Some("W1"), "q", Some(1))
wC == Work(Some("W2"), "p", None)
wD == Work(Some(""), "p", Some(3))
wE == Work(None, "q", Some(1))

\* The non-empty pages a pager can yield.
PagePool == { <<wA, wC>>, <<wB, wD, wA>>, <<wB, wC, wE>> }

\* fetch_works line 205: the relevance filter applied to one page.
RelevanceOf(work) == IF work.relevance_score = None THEN 0 ELSE work.relevance_score[1]

ApplyRelevance(page_results, filters) ==
  IF filters.min_relevance # None
  THEN SelectSeq(page_results, LAMBDA work : RelevanceOf(work) >= filters.min_relevance[1])
  ELSE page_results

\* The identifier test as "is not None": an empty identifier passes.
TruthyNotNone(work_id) == work_id # None

\* Python truthiness of work.get("id").
Truthy(work_id) == work_id # None /\ work_id[1] # ""

\* main line 400: work["search_method"] = cfg.search_name
Tag(work, name) ==
  [id |-> work.id, title |-> work.title, relevance_score |-> work.relevance_score,
   search_method |-> name]

\* The admission test without the seen_ids lookup.
IsNewWorkNoSeen(work_id, seen) == Truthy(work_id)

\* main line 406: the test that admits a work to all_works.
IsNewWork(work_id, seen) == Truthy(work_id) /\ work_id \notin seen

\* main lines 404-409: the dedup loop over the tagged results;
\* returns <<all_works, seen_ids>>.
RECURSIVE DedupById(_, _, _)
DedupById(results, works, seen) ==
  IF results = <<>> THEN <<works, seen>>
  ELSE LET work == Head(results) IN
       IF IsNewWork(work.id, seen)
       THEN DedupById(Tail(results), Append(works, work), seen \cup {work.id})
       ELSE DedupById(Tail(results), works, seen)

\* main lines 398-409 for one search.
Aggregated(results, name, works, seen) ==
  DedupById([i \in 1..Len(results) |-> Tag(results[i], name)], works, seen)

\* History: the first record returned with each id, and the search it came from.
RECURSIVE NoteFirst(_, _, _)
NoteFirst(recs, idx, first) ==
  IF recs = <<>> THEN first
  ELSE LET r == Head(recs) IN
       NoteFirst(Tail(recs), idx,
                 IF r.id \in DOMAIN first THEN first
                 ELSE [k \in DOMAIN first \cup {r.id} |->
                         IF k = r.id THEN [search |-> idx, work |-> r] ELSE first[k]])

cfg == configs[ci]

\* fetch_works line 192: does "for page_num in range(1, max_pages + 1)" run
\* its body for this page_num?
PageLoopOffByOne(n, max_pages) == n <= max_pages + 1

PageLoopRuns(n, max_pages) == n <= max_pages

FilterIdle ==
  /\ fpc = "idle" /\ args = None /\ input_exists = FALSE /\ csv_rows = <<>>
  /\ fieldnames = <<>> /\ papers = <<>> /\ total_papers = 0
  /\ duplicates_removed = 0 /\ oa_filtered_out = 0 /\ year_counts = <<>>
  /\ papers_without_year = 0 /\ stages = <<>> /\ peak_year = None
  /\ outputs = <<>> /\ ferror = "none"

\* main lines 371-377: arguments parsed, configs loaded.
Init ==
  /\ configs \in ConfigLists
  /\ args_output \in BOOLEAN
  /\ pc = "validate"
  /\ ci = 1 /\ page_num = 1 /\ all_results = <<>> /\ requests = 0
  /\ stop_reason = "none"
  /\ all_works = <<>> /\ seen_ids = {}
  /\ fetch_calls = 0 /\ first_returned = <<>> /\ failed = {} /\ pages = <<>>
  /\ csv_written = None /\ exit_code = None
  /\ FilterIdle

\* main lines 379-392 and 428-430: validate every config before any fetch.
Validate ==
  /\ pc = "validate"
  /\ IF \E i \in 1..Len(configs) : validate_filters(configs[i].filters)
     THEN /\ exit_code' = Some(1)
          /\ pc' = "done"
     ELSE /\ pc' = "search"
          /\ UNCHANGED exit_code
  /\ UNCHANGED <<configs, args_output, ci, page_num, all_results, requests,
                 stop_reason, all_works, seen_ids, fetch_calls, first_returned,
                 failed, pages, csv_written>>
  /\ UNCHANGED filterVars

\* main line 396 and fetch_works lines 170-192: the call, up to the page loop.
StartFetch ==
  /\ pc = "search"
  /\ ci <= Len(configs)
  /\ pc' = "page"
  /\ page_num' = 1
  /\ all_results' = <<>>
  /\ requests' = 0
  /\ stop_reason' = "none"
  /\ fetch_calls' = fetch_calls + 1
  /\ pages' = <<>>
  /\ UNCHANGED <<configs, args_output, ci, all_works, seen_ids, first_returned,
                 failed, csv_written, exit_code>>
  /\ UNCHANGED filterVars

\* The page step with the relevance filter applied before the empty-page
\* test: a page whose records are all dropped ends the loop.
FetchPageFilterFirst ==
  /\ pc = "page"
  /\ PageLoopRuns(page_num, cfg.max_pages)
  /\ \E page_results \in PagePool :
       LET kept == ApplyRelevance(page_results, cfg.filters) IN
       /\ all_results' = all_results \o kept
       /\ first_returned' = NoteFirst(kept, ci, first_returned)
       /\ pages' = Append(pages, page_results)
       /\ IF kept = <<>>
          THEN /\ stop_reason' = "empty"
               /\ pc' = "aggregate"
               /\ UNCHANGED page_num
          ELSE /\ page_num' = page_num + 1
               /\ UNCHANGED <<pc, stop_reason>>
  /\ requests' = requests + 1
  /\ UNCHANGED <<configs, args_output, ci, all_works, seen_ids,
                 fetch_calls, failed, csv_written, exit_code>>
  /\ UNCHANGED filterVars

\* fetch_works lines 195-211: next(pager) yields a non-empty page.
FetchPage ==
  /\ pc = "page"
  /\ PageLoopRuns(page_num, cfg.max_pages)
  /\ \E page_results \in PagePool :
       LET kept == ApplyRelevance(page_results, cfg.filters) IN
       /\ all_results' = all_results \o kept
       /\ first_returned' = NoteFirst(kept, ci, first_returned)
       /\ pages' = Append(pages, page_results)
  /\ requests' = requests + 1
  /\ page_num' = page_num + 1
  /\ UNCHANGED <<configs, args_output, pc, ci, stop_reason, all_works, seen_ids,
                 fetch_calls, failed, csv_written, exit_code>>
  /\ UNCHANGED filterVars

\* Leaving the page loop: fetch_works returns all_results to main.
LeaveLoop(reason) ==
  /\ stop_reason' = reason
  /\ pc' = "aggregate"
  /\ UNCHANGED <<configs, args_output, ci, page_num, all_results, all_works,
                 seen_ids, fetch_calls, first_returned, csv_written, exit_code>>
  /\ UNCHANGED filterVars

\* fetch_works lines 195-199: next(pager) yields an empty page; break.
EmptyPage ==
  /\ pc = "page"
  /\ PageLoopRuns(page_num, cfg.max_pages)
  /\ requests' = requests + 1
  /\ pages' = Append(pages, <<>>)
  /\ UNCHANGED failed
  /\ LeaveLoop("empty")

\* fetch_works lines 213-215: next(pager) raises StopIteration; break.
PagerExhausted ==
  /\ pc = "page"
  /\ PageLoopRuns(page_num, cfg.max_pages)
  /\ requests' = requests + 1
  /\ UNCHANGED <<failed, pages>>
  /\ LeaveLoop("exhausted")

\* The page exception not caught in fetch_works: it reaches main's handler.
PageErrorEscapes ==
  /\ pc = "page"
  /\ PageLoopRuns(page_num, cfg.max_pages)
  /\ requests' = requests + 1
  /\ failed' = failed \cup {ci}
  /\ stop_reason' = "error"
  /\ exit_code' = Some(1)
  /\ pc' = "done"
  /\ UNCHANGED <<configs, args_output, ci, page_num, all_results, all_works,
                 seen_ids, fetch_calls, first_returned, pages, csv_written>>
  /\ UNCHANGED filterVars

\* fetch_works lines 217-220: next(pager) raises another exception; it is
\* caught outside the loop, printed, and all_results is returned.
PageError ==
  /\ pc = "page"
  /\ PageLoopRuns(page_num, cfg.max_pages)
  /\ requests' = requests + 1
  /\ failed' = failed \cup {ci}
  /\ UNCHANGED pages
  /\ LeaveLoop("error")

\* fetch_works line 192: range(1, max_pages + 1) is used up.
PagesDone ==
  /\ pc = "page"
  /\ ~PageLoopRuns(page_num, cfg.max_pages)
  /\ UNCHANGED <<requests, failed, pages>>
  /\ LeaveLoop("max_pages")

\* main lines 398-415: tag the results and merge them into all_works.
Aggregate ==
  /\ pc = "aggregate"
  /\ LET r == Aggregated(all_results, cfg.search_name, all_works, seen_ids) IN
       /\ all_works' = r[1]
       /\ seen_ids' = r[2]
  /\ ci' = ci + 1
  /\ pc' = "search"
  /\ pages' = <<>>
  /\ UNCHANGED <<configs, args_output, page_num, all_results, requests,
                 stop_reason, fetch_calls, first_returned, failed, csv_written,
                 exit_code>>
  /\ UNCHANGED filterVars

\* main lines 417-432 with save_works_to_csv lines 235-237: the CSV is
\* written when --output is given and there are works.
Finish ==
  /\ pc = "search"
  /\ ci > Len(configs)
  /\ csv_written' = IF args_output /\ all_works # <<>> THEN Some(all_works) ELSE None
  /\ exit_code' = Some(0)
  /\ pc' = "done"
  /\ UNCHANGED <<configs, args_output, ci, page_num, all_results, requests,
                 stop_reason, all_works, seen_ids, fetch_calls, first_returned,
                 failed, pages>>
  /\ UNCHANGED filterVars

Next ==
  \/ Validate
  \/ StartFetch
  \/ FetchPage
  \/ EmptyPage
  \/ PagerExhausted
  \/ PageError
  \/ PagesDone
  \/ Aggregate
  \/ Finish

Spec == Init /\ [][Next]_vars

(***************************************************************************)
(*                           filter_data.py                                *)
(***************************************************************************)

\* ---- str methods, on tuples of characters

\* Characters str.strip() removes.
IsSpace(c) == c \in {" ", "\t"}

RECURSIVE lstrip(_)
lstrip(s) == IF s # <<>> /\ IsSpace(Head(s)) THEN lstrip(Tail(s)) ELSE s

RECURSIVE rstrip(_)
rstrip(s) ==
  IF s # <<>> /\ IsSpace(s[Len(s)]) THEN rstrip(SubSeq(s, 1, Len(s) - 1)) ELSE s

strip(s) == rstrip(lstrip(s))

\* str.lower() on the letters the inputs use.
LowerChar(c) ==
  CASE c = "A" -> "a" [] c = "B" -> "b" [] c = "G" -> "g" [] c = "O" -> "o"
    [] c = "L" -> "l" [] c = "D" -> "d" [] OTHER -> c

lower(s) == [i \in 1..Len(s) |-> LowerChar(s[i])]

\* The decimal digits int() accepts, and the characters str.isdigit() accepts:
\* isdigit is also true of digits that are not decimal, such as U+00B2
\* SUPERSCRIPT TWO (written "sup2" here), which int() rejects.
DecimalDigits == {"0", "1", "2", "3", "4", "5", "6", "7", "8", "9"}
DigitChars == DecimalDigits \cup {"sup2"}

isdigit(s) == s # <<>> /\ \A i \in 1..Len(s) : s[i] \in DigitChars

DigitValue(c) ==
  CASE c = "0" -> 0 [] c = "1" -> 1 [] c = "2" -> 2 [] c = "3" -> 3 [] c = "4" -> 4
    [] c = "5" -> 5 [] c = "6" -> 6 [] c = "7" -> 7 [] c = "8" -> 8 [] c = "9" -> 9

\* int(s) for a string of digits: None when it raises ValueError.
RECURSIVE IntOfDigits(_, _)
IntOfDigits(s, acc) ==
  IF s = <<>> THEN Some(acc)
  ELSE IF Head(s) \notin DecimalDigits THEN None
  ELSE IntOfDigits(Tail(s), 10 * acc + DigitValue(Head(s)))

int(s) == IntOfDigits(s, 0)

\* dict.get(key, '') on a CSV row.
Get(row, key) == IF key \in DOMAIN row THEN row[key] ELSE <<>>

\* ---- the input CSV

Row(t, y, o) == [title |-> t, year |-> y, oa_status |-> o]

gold == <<"g", "o", "l", "d">>
green == <<"g", "r", "e", "e", "n">>
Y2020 == <<"2", "0", "2", "0">>
Y2021 == <<"2", "0", "2", "1">>

RowPool ==
  { Row(<<"A", "b">>, Y2020, gold),
    Row(<<" ", "a", "b">>, Y2021 \o <<" ">>, green),
    Row(<<"B">>, <<>>, <<"G", "o", "l", "d", " ">>),
    Row(<<>>, <<"-", "5">>, <<>>),
    Row(<<" ">>, <<"n", "a">>, green),
    Row(<<"A", "b">>, <<"sup2">>, gold) }

\* The header rows of the input: with and without an oa_status column.
Headers == { <<"title", "year", "oa_status">>, <<"year", "title">> }

Columns(header) == {header[i] : i \in 1..Len(header)}

\* A row as csv.DictReader yields it under a header.
ReadRow(row, header) == [k \in Columns(header) |-> row[k]]

CsvInputs(header) ==
  UNION { { [i \in 1..n |-> ReadRow(f[i], header)] : f \in [1..n -> RowPool] } :
          n \in 0..MaxRows }

\* args.oa: None without --oa, else one of argparse's choices (one is enough
\* here: the choices differ only in their text).
OAChoices == {None, Some(gold)}

\* ---- deduplicate_papers

\* The loop body (lines 17-29) counting the empty-title rows it keeps as
\* removed duplicates.
DedupStepMiscounts(acc, paper) ==
  LET title == lower(strip(Get(paper, "title"))) IN
  IF title = <<>>
  THEN [acc EXCEPT !.deduplicated = Append(@, paper), !.duplicates_removed = @ + 1]
  ELSE IF title \notin acc.seen_titles
  THEN [acc EXCEPT !.seen_titles = @ \cup {title}, !.deduplicated = Append(@, paper)]
  ELSE [acc EXCEPT !.duplicates_removed = @ + 1]

\* The loop body without the empty-title test of line 20.
DedupStepNoEmptyTest(acc, paper) ==
  LET title == lower(strip(Get(paper, "title"))) IN
  IF title \notin acc.seen_titles
  THEN [acc EXCEPT !.seen_titles = @ \cup {title}, !.deduplicated = Append(@, paper)]
  ELSE [acc EXCEPT !.duplicates_removed = @ + 1]

\* deduplicate_papers lines 17-29: the loop body for one paper.
DedupStep(acc, paper) ==
  LET title == lower(strip(Get(paper, "title"))) IN
  IF title = <<>>
  THEN [acc EXCEPT !.deduplicated = Append(@, paper)]
  ELSE IF title \notin acc.seen_titles
  THEN [acc EXCEPT !.seen_titles = @ \cup {title}, !.deduplicated = Append(@, paper)]
  ELSE [acc EXCEPT !.duplicates_removed = @ + 1]

RECURSIVE DedupLoop(_, _)
DedupLoop(rows, acc) ==
  IF rows = <<>> THEN acc ELSE DedupLoop(Tail(rows), DedupStep(acc, Head(rows)))

\* deduplicate_papers: returns <<deduplicated, duplicates_removed>>.
deduplicate_papers(rows) ==
  LET acc == DedupLoop(rows, [seen_titles |-> {}, deduplicated |-> <<>>,
                              duplicates_removed |-> 0])
  IN  <<acc.deduplicated, acc.duplicates_removed>>

\* ---- filter_by_oa_status

\* Line 44 without the strip().
PaperOAStatusNoStrip(paper) == lower(Get(paper, "oa_status"))

\* filter_by_oa_status line 44.
PaperOAStatus(paper) == lower(strip(Get(paper, "oa_status")))

RECURSIVE OALoop(_, _, _)
OALoop(rows, oa_status_lower, acc) ==
  IF rows = <<>> THEN acc
  ELSE OALoop(Tail(rows), oa_status_lower,
              IF PaperOAStatus(Head(rows)) = oa_status_lower
              THEN [acc EXCEPT !.filtered = Append(@, Head(rows))]
              ELSE [acc EXCEPT !.filtered_out = @ + 1])

\* filter_by_oa_status: returns <<filtered, filtered_out>>.
filter_by_oa_status(rows, oa_status) ==
  LET acc == OALoop(rows, lower(oa_status), [filtered |-> <<>>, filtered_out |-> 0])
  IN  <<acc.filtered, acc.filtered_out>>

\* ---- year bucketing

\* Counter: year_counts[year] += 1, keeping dict insertion order.
Increment(yc, y) ==
  IF \E i \in 1..Len(yc) : yc[i].year = y
  THEN [i \in 1..Len(yc) |->
          IF yc[i].year = y THEN [year |-> y, count |-> yc[i].count + 1] ELSE yc[i]]
  ELSE Append(yc, [year |-> y, count |-> 1])

\* count_papers_by_year lines 89-96; error is "ValueError" when int() raises.
RECURSIVE BucketYears(_, _)
BucketYears(rows, acc) ==
  IF rows = <<>> \/ acc.error # "none" THEN acc
  ELSE LET year == strip(Get(Head(rows), "year")) IN
       BucketYears(Tail(rows),
         IF year # <<>> /\ isdigit(year)
         THEN IF int(year) = None
              THEN [acc EXCEPT !.error = "ValueError"]
              ELSE [acc EXCEPT !.year_counts = Increment(@, int(year)[1])]
         ELSE [acc EXCEPT !.papers_without_year = @ + 1])

\* ---- display and save

MaxCount(yc) == CHOOSE m \in {yc[i].count : i \in 1..Len(yc)} :
                  \A i \in 1..Len(yc) : yc[i].count <= m

\* The peak year as the smallest of the years with the largest count.
PeakYearSmallest(yc) ==
  CHOOSE y \in {yc[i].year : i \in 1..Len(yc)} :
    /\ \E i \in 1..Len(yc) : yc[i].year = y /\ yc[i].count = MaxCount(yc)
    /\ \A i \in 1..Len(yc) : yc[i].count = MaxCount(yc) => y <= yc[i].year

\* display_results line 144: max(year_counts, key=year_counts.get) is the
\* first key, in the dict's iteration order, with the largest count.
PeakYear(yc) ==
  LET first == CHOOSE i \in 1..Len(yc) :
                 /\ yc[i].count = MaxCount(yc)
                 /\ \A j \in 1..(i - 1) : yc[j].count # MaxCount(yc)
  IN  yc[first].year

Item(e) == <<e.year, e.count>>

\* year_counts.items() in the dict's order, unsorted.
ItemsUnsorted(yc) == [i \in 1..Len(yc) |-> Item(yc[i])]

\* sorted(year_counts.items()): ascending by year (the years are distinct).
RECURSIVE SortedItems(_)
SortedItems(yc) ==
  IF yc = <<>> THEN <<>>
  ELSE LET least == CHOOSE i \in 1..Len(yc) : \A j \in 1..Len(yc) : yc[i].year <= yc[j].year
       IN  <<Item(yc[least])>> \o
           SortedItems(SubSeq(yc, 1, least - 1) \o SubSeq(yc, least + 1, Len(yc)))

\* save_year_counts_to_csv lines 154-160.
YearCountsFile(yc) ==
  [kind |-> "year_counts", header |-> <<"Year", "Paper Count">>, lines |-> SortedItems(yc)]

\* save_filtered_papers_to_csv lines 172-175.
PapersFile(rows, header) == [kind |-> "papers", header |-> header, lines |-> rows]

FetchIdle ==
  /\ configs = <<>> /\ args_output = FALSE /\ pc = "idle"
  /\ ci = 1 /\ page_num = 1 /\ all_results = <<>> /\ requests = 0
  /\ stop_reason = "none" /\ all_works = <<>> /\ seen_ids = {}
  /\ fetch_calls = 0 /\ first_returned = <<>> /\ failed = {} /\ pages = <<>>
  /\ csv_written = None /\ exit_code = None

\* The command line and the input file, before main runs.
InitFilter ==
  /\ FetchIdle
  /\ fpc = "start"
  /\ args \in [deduplicate : BOOLEAN, oa : OAChoices]
  /\ input_exists \in BOOLEAN
  /\ fieldnames \in Headers
  /\ csv_rows \in CsvInputs(fieldnames)
  /\ papers = <<>> /\ total_papers = 0
  /\ duplicates_removed = 0 /\ oa_filtered_out = 0 /\ year_counts = <<>>
  /\ papers_without_year = 0 /\ stages = <<>> /\ peak_year = None
  /\ outputs = <<>> /\ ferror = "none"

\* main lines 226-230 without the --oa / --deduplicate validation.
ParseArgsUnchecked ==
  /\ fpc = "start"
  /\ fpc' = "check_input"
  /\ UNCHANGED <<args, input_exists, csv_rows, fieldnames, papers, total_papers,
                 duplicates_removed, oa_filtered_out, year_counts,
                 papers_without_year, stages, peak_year, outputs, ferror>>
  /\ UNCHANGED fetchVars

\* main lines 226-230: parser.error exits when --oa comes without -d.
ParseArgs ==
  /\ fpc = "start"
  /\ IF args.oa # None /\ ~args.deduplicate
     THEN ferror' = "usage" /\ fpc' = "exit"
     ELSE ferror' = ferror /\ fpc' = "check_input"
  /\ UNCHANGED <<args, input_exists, csv_rows, fieldnames, papers, total_papers,
                 duplicates_removed, oa_filtered_out, year_counts,
                 papers_without_year, stages, peak_year, outputs>>
  /\ UNCHANGED fetchVars

\* main lines 247-249: a missing input file is reported and main returns.
CheckInput ==
  /\ fpc = "check_input"
  /\ fpc' = IF input_exists THEN "load" ELSE "done"
  /\ UNCHANGED <<args, input_exists, csv_rows, fieldnames, papers, total_papers,
                 duplicates_removed, oa_filtered_out, year_counts,
                 papers_without_year, stages, peak_year, outputs, ferror>>
  /\ UNCHANGED fetchVars

\* count_papers_by_year lines 56-72: read the whole CSV.
LoadCsv ==
  /\ fpc = "load"
  /\ papers' = csv_rows
  /\ total_papers' = Len(csv_rows)
  /\ stages' = Append(stages, "load")
  /\ fpc' = "dedup"
  /\ UNCHANGED <<args, input_exists, csv_rows, fieldnames, duplicates_removed,
                 oa_filtered_out, year_counts, papers_without_year, peak_year,
                 outputs, ferror>>
  /\ UNCHANGED fetchVars

\* The dedup stage run on the rows the OA filter would keep: the two filters
\* in the opposite order.
DedupAfterOA ==
  /\ fpc = "dedup"
  /\ IF args.deduplicate
     THEN LET pre == IF args.oa # None
                     THEN filter_by_oa_status(papers, args.oa[1])[1]
                     ELSE papers
          IN  /\ papers' = deduplicate_papers(pre)[1]
              /\ duplicates_removed' = deduplicate_papers(pre)[2]
              /\ stages' = Append(stages, "dedup")
     ELSE UNCHANGED <<papers, duplicates_removed, stages>>
  /\ fpc' = "oa"
  /\ UNCHANGED <<args, input_exists, csv_rows, fieldnames, total_papers,
                 oa_filtered_out, year_counts, papers_without_year, peak_year,
                 outputs, ferror>>
  /\ UNCHANGED fetchVars

\* count_papers_by_year lines 75-79.
Dedup ==
  /\ fpc = "dedup"
  /\ IF args.deduplicate
     THEN /\ papers' = deduplicate_papers(papers)[1]
          /\ duplicates_removed' = deduplicate_papers(papers)[2]
          /\ stages' = Append(stages, "dedup")
     ELSE UNCHANGED <<papers, duplicates_removed, stages>>
  /\ fpc' = "oa"
  /\ UNCHANGED <<args, input_exists, csv_rows, fieldnames, total_papers,
                 oa_filtered_out, year_counts, papers_without_year, peak_year,
                 outputs, ferror>>
  /\ UNCHANGED fetchVars

\* count_papers_by_year lines 82-86.
OAFilter ==
  /\ fpc = "oa"
  /\ IF args.oa # None /\ args.oa[1] # <<>>
     THEN /\ papers' = filter_by_oa_status(papers, args.oa[1])[1]
          /\ oa_filtered_out' = filter_by_oa_status(papers, args.oa[1])[2]
          /\ stages' = Append(stages, "oa")
     ELSE UNCHANGED <<papers, oa_filtered_out, stages>>
  /\ fpc' = "bucket"
  /\ UNCHANGED <<args, input_exists, csv_rows, fieldnames, total_papers,
                 duplicates_removed, year_counts, papers_without_year, peak_year,
                 outputs, ferror>>
  /\ UNCHANGED fetchVars

\* count_papers_by_year lines 89-98.  A ValueError from int() is caught
\* nowhere in filter_data.py: the script ends with a traceback.
Bucket ==
  /\ fpc = "bucket"
  /\ LET acc == BucketYears(papers, [year_counts |-> <<>>, papers_without_year |-> 0,
                                     error |-> "none"])
     IN  IF acc.error # "none"
         THEN /\ ferror' = acc.error
              /\ fpc' = "exit"
              /\ UNCHANGED <<year_counts, papers_without_year>>
         ELSE /\ year_counts' = acc.year_counts
              /\ papers_without_year' = acc.papers_without_year
              /\ fpc' = "display"
              /\ UNCHANGED ferror
  /\ stages' = Append(stages, "bucket")
  /\ UNCHANGED <<args, input_exists, csv_rows, fieldnames, papers, total_papers,
                 duplicates_removed, oa_filtered_out, peak_year, outputs>>
  /\ UNCHANGED fetchVars

\* display_results lines 117-144.
Display ==
  /\ fpc = "display"
  /\ peak_year' = IF year_counts = <<>> THEN None ELSE Some(PeakYear(year_counts))
  /\ fpc' = "save"
  /\ UNCHANGED <<args, input_exists, csv_rows, fieldnames, papers, total_papers,
                 duplicates_removed, oa_filtered_out, year_counts,
                 papers_without_year, stages, outputs, ferror>>
  /\ UNCHANGED fetchVars

\* main lines 262-271.
Save ==
  /\ fpc = "save"
  /\ outputs' = IF args.deduplicate
                THEN Append(outputs, PapersFile(papers, fieldnames))
                ELSE IF year_counts # <<>>
                THEN Append(outputs, YearCountsFile(year_counts))
                ELSE outputs
  /\ fpc' = "done"
  /\ UNCHANGED <<args, input_exists, csv_rows, fieldnames, papers, total_papers,
                 duplicates_removed, oa_filtered_out, year_counts,
                 papers_without_year, stages, peak_year, ferror>>
  /\ UNCHANGED fetchVars

NextFilter ==
  \/ ParseArgs
  \/ CheckInput
  \/ LoadCsv
  \/ Dedup
  \/ OAFilter
  \/ Bucket
  \/ Display
  \/ Save

SpecFilter == InitFilter /\ [][NextFilter]_vars

(***************************************************************************)
(*                    Properties of retrieve_data.py                       *)
(***************************************************************************)

Indices(seq) == 1..Len(seq)

\* C1: all_works holds no identifier twice, and each of its records is the
\* first record returned with that identifier by the earliest search that
\* returned it, tagged with that search's name.
C1_AggregationDedup ==
  /\ \A j, k \in Indices(all_works) : all_works[j].id = all_works[k].id => j = k
  /\ \A k \in Indices(all_works) :
       LET id == all_works[k].id IN
       /\ id \in DOMAIN first_returned
       /\ all_works[k] = Tag(first_returned[id].work,
                             configs[first_returned[id].search].search_name)

\* Both searches returned W1 with different contents; the first one's survives.
C1_Witness ==
  /\ pc = "done"
  /\ Len(configs) = 2
  /\ \E k \in Indices(all_works), i \in Indices(all_results) :
       /\ all_works[k].search_method = "search_0"
       /\ all_results[i].id = all_works[k].id
       /\ all_results[i].title # all_works[k].title

\* C2: a page exception ends the search's pagination at once and without a
\* retry, the records collected so far are returned and aggregated, the later
\* searches are still fetched, and main still returns 0.
C2_PageErrorKeepsPartial ==
  /\ [][(pc = "page" /\ stop_reason' = "error") =>
          /\ all_results' = all_results
          /\ requests' = requests + 1
          /\ pc' = "aggregate"
          /\ exit_code' = None]_vars
  /\ [][stop_reason = "error" => requests' = requests \/ requests' = 0]_vars
  /\ [][(pc = "aggregate" /\ stop_reason = "error") =>
          /\ \A i \in Indices(all_results) :
               Truthy(all_results[i].id) =>
                 \E k \in Indices(all_works') : all_works'[k].id = all_results[i].id
          /\ pc' = "search"
          /\ ci' = ci + 1]_vars
  /\ [](pc = "done" /\ failed # {} =>
          exit_code = Some(0) /\ fetch_calls = Len(configs))

\* The first search failed on its second page; its first page is in
\* all_works, the second search ran, and main returned 0.
C2_Witness ==
  /\ pc = "done"
  /\ failed = {1}
  /\ Len(configs) = 2
  /\ fetch_calls = 2
  /\ exit_code = Some(0)
  /\ \E k \in Indices(all_works) : all_works[k].search_method = "search_0"
  /\ \E k \in Indices(all_works) : all_works[k].search_method = "search_1"

\* C3: a search requests at most max_pages pages; an empty page or an
\* exhausted pager ends the loop normally with the records collected so far,
\* and no page is requested after it.
C3_PaginationStops ==
  /\ [](pc \in {"page", "aggregate"} => requests <= cfg.max_pages)
  /\ [][(pc = "page" /\ stop_reason' \in {"empty", "exhausted"}) =>
          /\ all_results' = all_results
          /\ pc' = "aggregate"
          /\ failed' = failed
          /\ exit_code' = None]_vars
  /\ [][(stop_reason = "empty" \/ stop_reason = "exhausted") =>
          \/ requests' = requests
          \/ requests' = 0 /\ fetch_calls' = fetch_calls + 1]_vars

\* A search stopped by an empty second page, with the first page's records.
C3_Witness ==
  /\ pc = "aggregate"
  /\ stop_reason = "empty"
  /\ requests = 2
  /\ all_results # <<>>

\* The year invariant of a filter set, as the data model states it.
ViolatesYearInvariant(f) ==
  LET hasYear == f.year # None
      hasFrom == f.from_year # None
      hasTo == f.to_year # None
  IN  \/ hasYear /\ hasFrom
      \/ hasYear /\ hasTo
      \/ hasFrom /\ hasTo /\ f.to_year[1] < f.from_year[1]

\* C4: with an invalid config anywhere in the list, main returns 1 with no
\* search fetched and no CSV written; with none, validation raises nothing.
C4_ValidationFirst ==
  LET bad == \E i \in Indices(configs) : ViolatesYearInvariant(configs[i].filters) IN
  /\ bad => /\ fetch_calls = 0
            /\ requests = 0
            /\ csv_written = None
            /\ pc \in {"validate", "done"}
            /\ pc = "done" => exit_code = Some(1)
  /\ ~bad => /\ exit_code \in {None, Some(0)}
             /\ pc = "done" => fetch_calls = Len(configs)

\* A valid search declared before an invalid one: nothing was fetched.
C4_Witness ==
  /\ pc = "done"
  /\ exit_code = Some(1)
  /\ args_output
  /\ Len(configs) = 2
  /\ ~ViolatesYearInvariant(configs[1].filters)
  /\ configs[1].max_pages > 0
  /\ ViolatesYearInvariant(configs[2].filters)
  /\ fetch_calls = 0

(***************************************************************************)
(*                     Properties of filter_data.py                        *)
(***************************************************************************)

Range(seq) == {seq[i] : i \in 1..Len(seq)}

\* The rows of a list at the given indices, in the list's order.
RECURSIVE SubseqFrom(_, _, _)
SubseqFrom(rows, idx, i) ==
  IF i > Len(rows) THEN <<>>
  ELSE (IF i \in idx THEN <<rows[i]>> ELSE <<>>) \o SubseqFrom(rows, idx, i + 1)

SubseqAt(rows, idx) == SubseqFrom(rows, idx, 1)

\* The trimmed, lowercased title of a row.
NormTitle(row) == lower(strip(Get(row, "title")))

\* The rows deduplication must keep: empty normalized title, or the first
\* row with its normalized title.
FirstOccurrences(rows) ==
  { i \in 1..Len(rows) :
      \/ NormTitle(rows[i]) = <<>>
      \/ \A j \in 1..(i - 1) : NormTitle(rows[j]) # NormTitle(rows[i]) }

\* C5: deduplicate_papers keeps, in order, every row with an empty
\* normalized title and the first row of each other normalized title, and
\* returns the number of rows it dropped: of the function on every input read
\* (the input never changes, so it is evaluated once per run, when the CSV is
\* about to be read), and of the dedup stage's result.
C5_DedupFirstOccurrence ==
  /\ fpc = "load" =>
       deduplicate_papers(csv_rows) =
         << SubseqAt(csv_rows, FirstOccurrences(csv_rows)),
            Len(csv_rows) - Cardinality(FirstOccurrences(csv_rows)) >>
  /\ (fpc = "oa" /\ args.deduplicate) =>
       /\ papers = SubseqAt(csv_rows, FirstOccurrences(csv_rows))
       /\ duplicates_removed = Len(csv_rows) - Len(papers)

\* The dedup stage dropped a repeated title and kept two rows whose
\* normalized titles are both empty.
C5_Witness ==
  /\ fpc = "oa"
  /\ args.deduplicate
  /\ duplicates_removed >= 1
  /\ \E i, j \in 1..Len(papers) :
       i < j /\ NormTitle(papers[i]) = <<>> /\ NormTitle(papers[j]) = <<>>

\* C6: deduplicate_papers applied to its own output returns that output
\* and a drop count of 0.
C6_DedupIdempotent ==
  LET once == deduplicate_papers(csv_rows) IN
  /\ fpc = "load" => deduplicate_papers(once[1]) = <<once[1], 0>>
  /\ (fpc = "oa" /\ args.deduplicate) => deduplicate_papers(papers) = <<papers, 0>>

\* The dedup stage ran on an input with a repeated title and an empty one.
C6_Witness ==
  /\ fpc = "oa"
  /\ args.deduplicate
  /\ duplicates_removed >= 1
  /\ Len(papers) >= 2
  /\ \E i \in 1..Len(papers) : NormTitle(papers[i]) = <<>>

\* Requested statuses for filter_by_oa_status as a function: any case.
OAStatusArgs == {gold, green, <<"G", "o", "l", "d">>}

\* The rows whose trimmed, lowercased oa_status is the requested status,
\* compared without regard to case; a missing oa_status is empty.
OAMatches(rows, status) ==
  { i \in 1..Len(rows) :
      LET given == IF "oa_status" \in DOMAIN rows[i] THEN rows[i].oa_status ELSE <<>>
      IN  lower(strip(given)) = lower(status) }

\* C7: filter_by_oa_status returns exactly the matching rows in order and the
\* number of rows it removed, and filtering its output again changes nothing.
C7_OAFilterExact ==
  /\ fpc = "load" =>
       \A status \in OAStatusArgs :
         LET r == filter_by_oa_status(csv_rows, status) IN
         /\ r[1] = SubseqAt(csv_rows, OAMatches(csv_rows, status))
         /\ r[2] = Len(csv_rows) - Len(r[1])
         /\ filter_by_oa_status(r[1], status) = <<r[1], 0>>
  /\ (fpc = "bucket" /\ args.oa # None) =>
       LET before == deduplicate_papers(csv_rows)[1] IN
       /\ papers = SubseqAt(before, OAMatches(before, args.oa[1]))
       /\ oa_filtered_out = Len(before) - Len(papers)

\* The OA stage kept a row whose oa_status differs from the requested
\* status in case and spacing, and dropped another row.
C7_Witness ==
  /\ fpc = "bucket"
  /\ args.oa = Some(gold)
  /\ oa_filtered_out >= 1
  /\ \E i \in 1..Len(papers) : papers[i].oa_status # gold

\* A year field the claim counts in the year map: trimmed, non-empty,
\* decimal digits only.
HasDecimalYear(row) ==
  LET year == strip(Get(row, "year")) IN
  year # <<>> /\ \A i \in 1..Len(year) : year[i] \in DecimalDigits

DecimalYear(row) == int(strip(Get(row, "year")))[1]

\* C8: once the rows are bucketed, each remaining row has incremented exactly
\* one counter: its year's when the trimmed year is decimal digits, else the
\* missing-year counter; the counts add up to the number of remaining rows.
C8_YearBucketing ==
  "bucket" \in Range(stages) =>
    /\ ferror = "none"
    /\ \A e \in Range(year_counts) :
         e.count = Cardinality({ i \in 1..Len(papers) :
                                   HasDecimalYear(papers[i]) /\ DecimalYear(papers[i]) = e.year })
    /\ \A i \in 1..Len(papers) :
         HasDecimalYear(papers[i]) =>
           \E e \in Range(year_counts) : e.year = DecimalYear(papers[i])
    /\ papers_without_year =
         Cardinality({ i \in 1..Len(papers) : ~HasDecimalYear(papers[i]) })

\* A run on an existing input CSV that has ended.
RunEnded == input_exists /\ ferror # "usage" /\ fpc \in {"done", "exit"}

Ascending(lines) == \A i, j \in 1..Len(lines) : i < j => lines[i][1] < lines[j][1]

\* The year-count file the claim describes for the current year map.
IsYearCountsFile(file) ==
  /\ file.kind = "year_counts"
  /\ file.header = <<"Year", "Paper Count">>
  /\ Ascending(file.lines)
  /\ Range(file.lines) = {Item(e) : e \in Range(year_counts)}
  /\ Len(file.lines) = Len(year_counts)

\* C9 as claimed: every run on an existing input writes exactly one output,
\* the filtered rows under dedup and the year-count file otherwise.  Stated
\* of the runs that reach the end of main.
C9_OneOutputAlways ==
  (input_exists /\ fpc = "done") =>
    /\ Len(outputs) = 1
    /\ IF args.deduplicate
       THEN outputs[1] = PapersFile(papers, fieldnames)
       ELSE IsYearCountsFile(outputs[1])

\* C9 amended: at most one output is written.  A finished run writes the
\* filtered rows with the original columns under dedup; without dedup it
\* writes the year-count file in ascending year order when at least one year
\* was counted, and nothing when none was.  A run whose year bucketing raised
\* (C8) writes nothing.
C9_OutputMode ==
  /\ Len(outputs) <= 1
  /\ RunEnded =>
       IF ferror = "ValueError" THEN outputs = <<>>
       ELSE IF args.deduplicate
       THEN /\ outputs = <<PapersFile(papers, fieldnames)>>
            /\ outputs[1].header = fieldnames
            /\ outputs[1].lines =
                 LET before == deduplicate_papers(csv_rows)[1] IN
                 IF args.oa = None THEN before
                 ELSE SubseqAt(before, OAMatches(before, args.oa[1]))
       ELSE IF year_counts = <<>> THEN outputs = <<>>
       ELSE Len(outputs) = 1 /\ IsYearCountsFile(outputs[1])

\* A year-count file whose years were first counted in descending order.
C9_Witness ==
  /\ fpc = "done"
  /\ ~args.deduplicate
  /\ Len(outputs) = 1
  /\ Len(year_counts) >= 2
  /\ year_counts[1].year > year_counts[2].year

\* Rows in which no non-empty normalized title repeats.
NoRepeatedTitle(rows) ==
  \A i, j \in 1..Len(rows) :
    (i < j /\ NormTitle(rows[i]) # <<>>) => NormTitle(rows[i]) # NormTitle(rows[j])

\* C10: --oa without --deduplicate ends in the usage error with no input
\* read, no row filtered or counted and no output written; the OA stage runs
\* only after the dedup stage, on rows without repeated titles.
C10_OARequiresDedup ==
  /\ (args.oa # None /\ ~args.deduplicate /\ fpc # "start") =>
       /\ fpc = "exit"
       /\ ferror = "usage"
       /\ stages = <<>>
       /\ papers = <<>> /\ total_papers = 0
       /\ year_counts = <<>> /\ papers_without_year = 0
       /\ outputs = <<>>
  /\ (fpc = "oa" /\ args.oa # None) =>
       stages = <<"load", "dedup">> /\ NoRepeatedTitle(papers)
  /\ "oa" \in Range(stages) =>
       SubSeq(stages, 1, 3) = <<"load", "dedup", "oa">>

\* The usage error, on an input that exists and has rows.
C10_Witness ==
  /\ fpc = "exit"
  /\ ferror = "usage"
  /\ input_exists
  /\ Len(csv_rows) >= 2

\* The years that share the largest count of the year map.
TiedYears ==
  { e.year : e \in { x \in Range(year_counts) :
                       \A o \in Range(year_counts) : o.count <= x.count } }

\* The position in the remaining rows of the first row counted for a year.
FirstRowOf(y) ==
  CHOOSE i \in 1..Len(papers) :
    /\ HasDecimalYear(papers[i]) /\ DecimalYear(papers[i]) = y
    /\ \A j \in 1..(i - 1) : ~(HasDecimalYear(papers[j]) /\ DecimalYear(papers[j]) = y)

DisplayRan == fpc \in {"save", "done"}

BothFiltersRan == args.deduplicate /\ args.oa # None /\ "oa" \in Range(stages)

\* C12: with both filters enabled the rows left are the OA matches among the
\* first occurrences of the whole input (dedup first, OA filter second), so a
\* row repeating an earlier title is gone whatever its OA status, and the
\* three counts add up to the number of rows read.  It holds of the rows from
\* the OA stage on, also in a run whose later year bucketing raises (C8).
C12_DedupBeforeOA ==
  BothFiltersRan =>
    LET firsts == SubseqAt(csv_rows, FirstOccurrences(csv_rows)) IN
    /\ SubSeq(stages, 1, 3) = <<"load", "dedup", "oa">>
    /\ papers = SubseqAt(firsts, OAMatches(firsts, args.oa[1]))
    /\ duplicates_removed = Len(csv_rows) - Len(firsts)
    /\ oa_filtered_out = Len(firsts) - Len(papers)
    /\ total_papers = Len(csv_rows)
    /\ total_papers = duplicates_removed + oa_filtered_out + Len(papers)

\* A gold row repeats the title of an earlier green row: dedup dropped the
\* gold row, the OA filter dropped the green one, and neither is left.
C12_Witness ==
  /\ BothFiltersRan
  /\ fpc = "done"
  /\ \E i, j \in 1..Len(csv_rows) :
       /\ i < j
       /\ NormTitle(csv_rows[i]) # <<>>
       /\ NormTitle(csv_rows[i]) = NormTitle(csv_rows[j])
       /\ j \in OAMatches(csv_rows, args.oa[1])
       /\ i \notin OAMatches(csv_rows, args.oa[1])
       /\ \A k \in 1..Len(papers) : NormTitle(papers[k]) # NormTitle(csv_rows[j])
  /\ duplicates_removed >= 1
  /\ oa_filtered_out >= 1
  /\ Len(papers) >= 1

\* The records of the pages of the current fetch_works call, in fetch order.
RECURSIVE Flat(_)
Flat(pgs) == IF pgs = <<>> THEN <<>> ELSE Head(pgs) \o Flat(Tail(pgs))

\* A record passes the filters: no minimum relevance is configured, or its
\* relevance score, 0 when absent or null, is at least the minimum.
Passes(work, filters) ==
  \/ filters.min_relevance = None
  \/ /\ work.relevance_score = None
     /\ 0 >= filters.min_relevance[1]
  \/ /\ work.relevance_score # None
     /\ work.relevance_score[1] >= filters.min_relevance[1]

\* The page just received is not empty.
GotRecords == Len(pages') = Len(pages) + 1 /\ pages'[Len(pages')] # <<>>

\* C13: the list fetch_works builds is, in fetch order, exactly the records
\* of the pages fetched whose relevance score (0 when absent or null) is at
\* least the configured minimum; a page that arrives non-empty never stops
\* the page loop, even when the filter keeps none of its records: the loop
\* moves on to the next page number.
C13_RelevanceFilter ==
  /\ [](((pc = "page") \/ (pc = "aggregate")) =>
         LET got == Flat(pages) IN
         /\ all_results =
              SubseqAt(got, { i \in 1..Len(got) : Passes(got[i], cfg.filters) })
         /\ (pc = "page") =>
              /\ requests = Len(pages)
              /\ page_num = requests + 1
              /\ stop_reason = "none"
              /\ \A k \in 1..Len(pages) : pages[k] # <<>>)
  /\ [][(pc = "page" /\ GotRecords) =>
          /\ pc' = "page"
          /\ stop_reason' = "none"
          /\ page_num' = page_num + 1
          /\ requests' = requests + 1]_vars

\* Under a minimum relevance the first page arrived non-empty and lost all
\* its records, a later page was still requested, and it gave a record whose
\* score equals the minimum.
C13_Witness ==
  /\ pc = "aggregate"
  /\ cfg.filters.min_relevance # None
  /\ Len(pages) >= 2
  /\ pages[1] # <<>>
  /\ \A i \in 1..Len(pages[1]) : ~Passes(pages[1][i], cfg.filters)
  /\ \E i \in 1..Len(pages[1]) : pages[1][i].relevance_score = None
  /\ \E i \in 1..Len(all_results) :
       all_results[i].relevance_score = cfg.filters.min_relevance

\* An identifier that is present and not the empty string.
NonEmptyId(id) == id # None /\ id # Some("")

\* The non-empty identifiers returned by the searches aggregated so far.
ReturnedIds ==
  { id \in DOMAIN first_returned :
      NonEmptyId(id) /\ first_returned[id].search < ci }

\* C14: a record whose identifier is missing or empty is never in all_works,
\* whichever search returned it; the identifiers of all_works are exactly
\* the distinct non-empty identifiers the aggregated searches returned, one
\* record each.
C14_NoEmptyIdAggregated ==
  /\ \A k \in Indices(all_works) : NonEmptyId(all_works[k].id)
  /\ { all_works[k].id : k \in Indices(all_works) } = ReturnedIds
  /\ Len(all_works) = Cardinality(ReturnedIds)
  /\ seen_ids = ReturnedIds

\* Two searches ended normally; records without an identifier and with an
\* empty one were returned, the second search returned such a record too,
\* and all_works holds fewer records than identifiers were returned.
C14_Witness ==
  /\ pc = "done"
  /\ exit_code = Some(0)
  /\ Len(configs) = 2
  /\ None \in DOMAIN first_returned
  /\ Some("") \in DOMAIN first_returned
  /\ \E i \in Indices(all_results) : ~NonEmptyId(all_results[i].id)
  /\ all_works # <<>>
  /\ Len(all_works) < Cardinality(DOMAIN first_returned)

====
